---------------------------- MODULE Spec2Model ----------------------------
(***************************************************************************)
(* TLA+ model of the OBD-II telemetry subsystem (app/telemetry.py) and of  *)
(* the shutdown handler that owns the poller task (app/server.py).         *)
(*                                                                         *)
(* Text is modelled as a sequence of one-character strings.  Optional      *)
(* values (Python None or a value) are modelled as sequences of length 0   *)
(* or 1.  PID metric values are held in tenths (round(x, 1)), the battery  *)
(* voltage in hundredths (round(x, 2)).                                    *)
(***************************************************************************)
EXTENDS Integers, Sequences, FiniteSets, TLC

\* ------------------------------------------------------------ bounds
\* Number of ELM327Client objects the outer retry loop may create.
MaxClients == 2
\* Largest value of the wall clock read by utc_now_iso().
MaxTime == 1
\* Number of concurrent snapshot() callers (HTTP request handlers).
NumReaders == 2
\* Largest number of lines in a response handed to parse_pid_bytes directly.
MaxLines == 2
\* Largest number of payload bytes in a response decoded directly.
MaxPayload == 3

\* ------------------------------------------------------------ optional values
None == << >>
Some(v) == << v >>

\* ------------------------------------------------------------ text helpers
Digits == <<"0", "1", "2", "3", "4", "5", "6", "7", "8", "9">>
HexDigits == Digits \o <<"A", "B", "C", "D", "E", "F">>
LowerCase == <<"a", "b", "c", "d", "e", "f", "g", "h", "i", "j", "k", "l", "m",
               "n", "o", "p", "q", "r", "s", "t", "u", "v", "w", "x", "y", "z">>
UpperCase == <<"A", "B", "C", "D", "E", "F", "G", "H", "I", "J", "K", "L", "M",
               "N", "O", "P", "Q", "R", "S", "T", "U", "V", "W", "X", "Y", "Z">>
WhiteSpace == {" ", "\t", "\n", "\r", "\f"}

Range(s) == {s[i] : i \in DOMAIN s}

IndexOf(s, c) == CHOOSE i \in DOMAIN s : s[i] = c

\* str.upper(), one character
UpperChar(c) == IF c \in Range(LowerCase) THEN UpperCase[IndexOf(LowerCase, c)] ELSE c

\* str.upper()
Upper(s) == [i \in DOMAIN s |-> UpperChar(s[i])]

\* str.replace(old, new) for a one-character old and a one-character new
ReplaceChar(s, old, new) == [i \in DOMAIN s |-> IF s[i] = old THEN new ELSE s[i]]

\* str.replace(old, "") for a one-character old
RECURSIVE RemoveChar(_, _)
RemoveChar(s, old) ==
    IF s = << >> THEN << >>
    ELSE IF Head(s) = old THEN RemoveChar(Tail(s), old)
    ELSE <<Head(s)>> \o RemoveChar(Tail(s), old)

\* str.strip()
RECURSIVE LStrip(_)
LStrip(s) == IF s # << >> /\ Head(s) \in WhiteSpace THEN LStrip(Tail(s)) ELSE s

RECURSIVE RStrip(_)
RStrip(s) ==
    IF s # << >> /\ s[Len(s)] \in WhiteSpace THEN RStrip(SubSeq(s, 1, Len(s) - 1)) ELSE s

Strip(s) == RStrip(LStrip(s))

\* str.split(sep) for a one-character sep: empty fields are kept
RECURSIVE SplitOn(_, _, _)
SplitOn(s, sep, cur) ==
    IF s = << >> THEN <<cur>>
    ELSE IF Head(s) = sep THEN <<cur>> \o SplitOn(Tail(s), sep, << >>)
    ELSE SplitOn(Tail(s), sep, Append(cur, Head(s)))

\* str.split() without argument: runs of whitespace separate, no empty fields
RECURSIVE SplitWs(_, _)
SplitWs(s, cur) ==
    IF s = << >> THEN (IF cur = << >> THEN << >> ELSE <<cur>>)
    ELSE IF Head(s) \in WhiteSpace
         THEN (IF cur = << >> THEN << >> ELSE <<cur>>) \o SplitWs(Tail(s), << >>)
         ELSE SplitWs(Tail(s), Append(cur, Head(s)))

\* str.startswith(prefix)
StartsWith(s, prefix) ==
    Len(s) >= Len(prefix) /\ SubSeq(s, 1, Len(prefix)) = prefix

HexVal(c) == IndexOf(HexDigits, c) - 1

\* int(token, 16) for a token of hex digits
RECURSIVE HexInt(_)
HexInt(tok) ==
    IF tok = << >> THEN 0
    ELSE 16 * HexInt(SubSeq(tok, 1, Len(tok) - 1)) + HexVal(tok[Len(tok)])

\* format(n, "X")
RECURSIVE ToHex(_)
ToHex(n) == IF n < 16 THEN <<HexDigits[n + 1]>>
            ELSE ToHex(n \div 16) \o <<HexDigits[(n % 16) + 1]>>

\* format(n, "02X")
ToHex02(n) == IF n < 16 THEN <<"0">> \o ToHex(n) ELSE ToHex(n)

\* ------------------------------------------------------------ PID registry
\* Mutant: two rows of the table exchanged
PidKeysSwapped == <<"rpm", "coolant_c", "speed_kmh", "throttle_pct",
                    "engine_load_pct", "fuel_level_pct", "intake_c">>

\* PID_TABLE, in insertion order (dict iteration order)
PidKeys == <<"rpm", "speed_kmh", "coolant_c", "throttle_pct",
             "engine_load_pct", "fuel_level_pct", "intake_c">>

PID_TABLE ==
    [rpm             |-> [command |-> <<"0","1","0","C">>, bytes_needed |-> 2, decoder |-> "rpm"],
     speed_kmh       |-> [command |-> <<"0","1","0","D">>, bytes_needed |-> 1, decoder |-> "identity"],
     coolant_c       |-> [command |-> <<"0","1","0","5">>, bytes_needed |-> 1, decoder |-> "offset40"],
     throttle_pct    |-> [command |-> <<"0","1","1","1">>, bytes_needed |-> 1, decoder |-> "pct255"],
     engine_load_pct |-> [command |-> <<"0","1","0","4">>, bytes_needed |-> 1, decoder |-> "pct255"],
     fuel_level_pct  |-> [command |-> <<"0","1","2","F">>, bytes_needed |-> 1, decoder |-> "pct255"],
     intake_c        |-> [command |-> <<"0","1","0","F">>, bytes_needed |-> 1, decoder |-> "offset40"]]

ATRV == <<"A","T","R","V">>

\* The store's metric keys: {key: None for key in PID_TABLE} | {"battery_v": None}
MetricKeys == Range(PidKeys) \cup {"battery_v"}

CONTROL_LINES ==
    { <<"O","K">>,
      <<"N","O"," ","D","A","T","A">>,
      <<"S","T","O","P","P","E","D">>,
      <<"U","N","A","B","L","E"," ","T","O"," ","C","O","N","N","E","C","T">>,
      <<"B","U","S"," ","I","N","I","T",".",".",".","E","R","R","O","R">>,
      <<"E","R","R","O","R">>,
      <<"?">> }

\* HEX_LINE_RE.fullmatch(line): ^[0-9A-F ]+$
HexLineMatch(line) ==
    line # << >> /\ \A i \in DOMAIN line : line[i] \in Range(HexDigits) \cup {" "}

\* ------------------------------------------------------------ response parser
\* Mutant: the unspaced line is not cut into pairs
_split_hex_pairs_uncut(value) ==
    LET compact == RemoveChar(value, " ")
    IN IF Len(compact) % 2 # 0 THEN << >> ELSE <<compact>>

_split_hex_pairs(value) ==
    LET compact == RemoveChar(value, " ")
    IN IF Len(compact) % 2 # 0 THEN << >>
       ELSE [i \in 1..(Len(compact) \div 2) |-> SubSeq(compact, 2 * i - 1, 2 * i)]

\* The tokens of one cleaned line (line 182)
Tokens(line) == IF " " \in Range(line) THEN SplitWs(line, << >>) ELSE _split_hex_pairs(line)

\* One raw line of the response, cleaned (line 174)
CleanLine(raw_line) == RemoveChar(Upper(Strip(raw_line)), ">")

\* Mutant: the PID code of the line is not compared
LineQualifiesAnyPid(command, line) ==
    LET expected_mode == ToHex02(HexInt(SubSeq(command, 1, 2)) + 64)
        tokens == Tokens(line)
    IN /\ line # << >>
       /\ line # Upper(command)
       /\ ~StartsWith(line, <<"S","E","A","R","C","H","I","N","G">>)
       /\ line \notin CONTROL_LINES
       /\ HexLineMatch(line)
       /\ Len(tokens) >= 2
       /\ tokens[1] = expected_mode

\* Whether a cleaned line is a data line carrying the expected header (lines 175-186)
LineQualifies(command, line) ==
    LET expected_mode == ToHex02(HexInt(SubSeq(command, 1, 2)) + 64)
        expected_pid == Upper(SubSeq(command, 3, 4))
        tokens == Tokens(line)
    IN /\ line # << >>
       /\ line # Upper(command)
       /\ ~StartsWith(line, <<"S","E","A","R","C","H","I","N","G">>)
       /\ line \notin CONTROL_LINES
       /\ HexLineMatch(line)
       /\ Len(tokens) >= 2
       /\ tokens[1] = expected_mode
       /\ tokens[2] = expected_pid

\* parse_pid_bytes(command, response): Some(payload) or None
parse_pid_bytes(command, response) ==
    LET raw == SplitOn(ReplaceChar(response, "\r", "\n"), "\n", << >>)
        lines == [i \in DOMAIN raw |-> CleanLine(raw[i])]
        hits == {i \in DOMAIN lines : LineQualifies(command, lines[i])}
    IN IF hits = {} THEN None
       ELSE LET first == CHOOSE i \in hits : \A j \in hits : i <= j
                tokens == Tokens(lines[first])
            IN Some([k \in 1..(Len(tokens) - 2) |-> HexInt(tokens[k + 2])])

\* VOLT_RE = (\d{1,2}(?:[.,]\d{1,2})?) searched in the response; the value in
\* hundredths, so that round(value, 2) is the identity on it
IsDigit(c) == c \in Range(Digits)

DigitVal(c) == IndexOf(Digits, c) - 1

parse_voltage(response) ==
    LET starts == {i \in DOMAIN response : IsDigit(response[i])}
    IN IF starts = {} THEN None
       ELSE LET i == CHOOSE x \in starts : \A y \in starts : x <= y
                at(j) == IF j \in DOMAIN response THEN response[j] ELSE ""
                two == IsDigit(at(i + 1))
                whole == IF two THEN 10 * DigitVal(at(i)) + DigitVal(at(i + 1))
                         ELSE DigitVal(at(i))
                p == IF two THEN i + 2 ELSE i + 1
                hasFrac == at(p) \in {".", ","} /\ IsDigit(at(p + 1))
                frac == IF ~hasFrac THEN 0
                        ELSE IF IsDigit(at(p + 2))
                             THEN 10 * DigitVal(at(p + 1)) + DigitVal(at(p + 2))
                             ELSE 10 * DigitVal(at(p + 1))
            IN Some(100 * whole + frac)

\* round(num / den, 1) in tenths: round half to even on the exact quotient
RoundTenths(num, den) ==
    LET q == (10 * num) \div den
        r == (10 * num) % den
    IN IF 2 * r < den THEN q
       ELSE IF 2 * r > den THEN q + 1
       ELSE IF q % 2 = 0 THEN q ELSE q + 1

\* Mutant: the two bytes of the engine speed are taken in the wrong order
DecodeLowByteFirst(decoder, d) ==
    CASE decoder = "rpm"      -> RoundTenths(d[2] * 256 + d[1], 4)
      [] decoder = "identity" -> RoundTenths(d[1], 1)
      [] decoder = "offset40" -> RoundTenths(d[1] - 40, 1)
      [] decoder = "pct255"   -> RoundTenths(d[1] * 100, 255)

\* definition.decoder(d), then round(raw_value, 1), in tenths
Decode(decoder, d) ==
    CASE decoder = "rpm"      -> RoundTenths(d[1] * 256 + d[2], 4)
      [] decoder = "identity" -> RoundTenths(d[1], 1)
      [] decoder = "offset40" -> RoundTenths(d[1] - 40, 1)
      [] decoder = "pct255"   -> RoundTenths(d[1] * 100, 255)

\* Mutant: a PID that does not parse is recorded as 0 instead of absent
MetricOfZero(key, response) ==
    LET definition == PID_TABLE[key]
        payload == parse_pid_bytes(definition.command, response)
    IN IF payload = None \/ Len(payload[1]) < definition.bytes_needed
       THEN Some(0)
       ELSE Some(Decode(definition.decoder, SubSeq(payload[1], 1, definition.bytes_needed)))

\* The value recorded for one PID of a tick (lines 239-245)
MetricOf(key, response) ==
    LET definition == PID_TABLE[key]
        payload == parse_pid_bytes(definition.command, response)
    IN IF payload = None \/ Len(payload[1]) < definition.bytes_needed
       THEN None
       ELSE Some(Decode(definition.decoder, SubSeq(payload[1], 1, definition.bytes_needed)))

\* The battery value of a tick (lines 248-249)
VoltageOf(response) == parse_voltage(response)


\* ------------------------------------------------------------ adapter
\* Texts the adapter may answer to a command of a tick.
good_rpm == <<"4","1"," ","0","C"," ","1","A"," ","F","8","\r","\r",">">>
no_data == <<"N","O"," ","D","A","T","A","\r",">">>
short_rpm == <<"4","1"," ","0","C"," ","1","A","\r",">">>
good_speed == <<"4","1","0","D","3","C",">">>
good_coolant == <<"4","1"," ","0","5"," ","7","B","\r",">">>
good_throttle == <<"4","1"," ","1","1"," ","3","3","\r",">">>
good_load == <<"4","1"," ","0","4"," ","8","0","\r",">">>
good_fuel == <<"4","1"," ","2","F"," ","F","F","\r",">">>
good_intake == <<"4","1"," ","0","F"," ","4","1","\r",">">>
good_volt == <<"1","2",".","6","V","\r",">">>
bad_volt == <<"?","\r",">">>

Responses(key) ==
    CASE key = "rpm"             -> {good_rpm, no_data, short_rpm}
      [] key = "speed_kmh"       -> {good_speed, good_rpm}
      [] key = "coolant_c"       -> {good_coolant}
      [] key = "throttle_pct"    -> {good_throttle}
      [] key = "engine_load_pct" -> {good_load}
      [] key = "fuel_level_pct"  -> {good_fuel}
      [] key = "intake_c"        -> {good_intake}
      [] key = "battery_v"       -> {good_volt, bad_volt}

\* Exceptions of the socket layer, by the operation that raises them.
OpenFaults == {"refused", "timeout"}
WriteFaults == {"reset"}
ReadFaults == {"timeout", "eof", "reset"}

\* str(exc)
ErrText(e) ==
    CASE e = "timeout" -> ""
      [] e = "eof"     -> "OBD adapter closed the socket."
      [] e = "reset"   -> "[Errno 104] Connection reset by peer"
      [] e = "refused" -> "[Errno 111] Connect call failed"

\* The Python class of the exception each fault is raised as: ConnectionError
\* is raised by lines 119, 134, 147, 153, asyncio.TimeoutError by wait_for
\* (lines 102, 151), the others by the socket layer
ExcClass(e) ==
    CASE e = "not_connected" -> "ConnectionError"
      [] e = "eof"           -> "ConnectionError"
      [] e = "reset"         -> "ConnectionResetError"
      [] e = "refused"       -> "ConnectionRefusedError"
      [] e = "timeout"       -> "TimeoutError"

\* isinstance(exc, ConnectionError): ConnectionResetError and
\* ConnectionRefusedError are subclasses of ConnectionError, TimeoutError is a
\* subclass of OSError only
IsConnectionError(cls) ==
    cls \in {"ConnectionError", "ConnectionResetError", "ConnectionRefusedError"}

\* ------------------------------------------------------------ state
VARIABLES
    simulate,     \* settings.simulate
    stop_event,   \* app.state.stop_event
    pc,           \* position of the poller task in run()
    client,       \* the ELM327Client of the current outer iteration (0: none yet)
    nclients,     \* number of ELM327Client objects created so far
    sock,         \* per client: state of the socket behind its transport
    writer,       \* per client: self._writer is not None
    attempts,     \* per client: number of connect() calls made on it
    retired,      \* clients that have faulted or been closed
    idx,          \* loop index of the synchronization, setup or PID loop
    metrics,      \* the tick's local dict
    tickResp,     \* the responses received so far in the current tick
    tickLog,      \* the commands written so far in the current tick
    inFlight,     \* number of send() calls in progress
    exc,          \* the exception in flight in _run_obd ("none" if none)
    sop,          \* the store call the poller is executing
    ret,          \* where the poller continues after the store call
    store,        \* TelemetryStore._snapshot
    committed,    \* the store as left by the last completed mutation
    lock,         \* holder of TelemetryStore._lock
    now,          \* the wall clock
    rpc,          \* per reader: position in snapshot()
    rsnap,        \* per reader: the copy snapshot() is returning
    sd_pc,        \* position of shutdown_event()
    cancel,       \* cancellation of the poller task: none, pending, delivered
    stoppedInWait, \* the stop signal was raised while the poller was in a wait
    wire,         \* what the current client has written and read since connect()
    result,       \* per client: outcome of the last call a direct caller made on it
    held,         \* a snapshot a caller of snapshot() has kept, if any
    pin,          \* the arguments of a parse_pid_bytes call
    pout          \* the value that call returned, once it has returned

vars == <<simulate, wire, result, held, pin, pout, stop_event, pc, client, nclients, sock, writer, attempts, retired,
          idx, metrics, tickResp, tickLog, inFlight, exc, sop, ret, store, committed,
          lock, now, rpc, rsnap, sd_pc, cancel, stoppedInWait>>

pollerVars == <<pc, client, nclients, sock, writer, attempts, retired, idx, metrics,
                tickResp, tickLog, inFlight, exc, sop, ret>>
storeVars == <<store, committed, lock>>
readerVars == <<rpc, rsnap>>
shutdownVars == <<stop_event, sd_pc, cancel, stoppedInWait>>

Clients == 1..MaxClients
Readers == 1..NumReaders

Unlocked == << >>
HeldByPoller == <<"poller">>
HeldByReader(r) == <<"reader", r>>

EmptyDict == [k \in {} |-> None]

\* TelemetryStore.__init__
InitSnapshot ==
    [connected  |-> FALSE,
     updated_at |-> None,
     last_error |-> None,
     adapter    |-> [host |-> "192.168.0.10", port |-> 35000],
     metrics    |-> [k \in MetricKeys |-> None]]

\* No call has been made on a client yet
NoCall == [call |-> "none", raised |-> "none", text |-> None]

\* No parse_pid_bytes call is being made
NoParse == [command |-> [text |-> << >>, mode |-> 0, pid |-> 0], lines |-> << >>, cr |-> TRUE]

NoOp == [kind |-> "none", connected |-> FALSE, last_error |-> None, metrics |-> EmptyDict]

\* The state after the module-level construction of server.py (lines 17-19)
\* and the construction of the objects, with the worker at position start
Constructed(start) ==
    /\ stop_event = FALSE
    /\ pc = start
    /\ client = 0
    /\ nclients = 0
    /\ sock = [c \in Clients |-> "none"]
    /\ writer = [c \in Clients |-> FALSE]
    /\ attempts = [c \in Clients |-> 0]
    /\ retired = {}
    /\ idx = 0
    /\ metrics = EmptyDict
    /\ tickResp = EmptyDict
    /\ tickLog = << >>
    /\ inFlight = 0
    /\ exc = "none"
    /\ sop = NoOp
    /\ ret = "none"
    /\ store = InitSnapshot
    /\ committed = InitSnapshot
    /\ lock = Unlocked
    /\ now = 0
    /\ rpc = [r \in Readers |-> "idle"]
    /\ rsnap = [r \in Readers |-> None]
    /\ sd_pc = "serving"
    /\ cancel = "none"
    /\ stoppedInWait = FALSE
    /\ wire = << >>
    /\ result = [c \in Clients |-> NoCall]
    /\ held = None
    /\ pin = NoParse
    /\ pout = None

\* The application: the poller task is started in either mode (line 47)
Init ==
    /\ simulate \in BOOLEAN
    /\ Constructed("run")

\* ------------------------------------------------------------ store
\* Mutant: the store's operations do not exclude one another
LockIgnored == TRUE

\* asyncio.Lock: acquire() succeeds only when nobody holds the lock
LockFree == lock = Unlocked

\* Mutant: absent values of the mapping do not overwrite
ApplyMetricsKeepStale(metric_store, m) ==
    [k \in DOMAIN metric_store |->
        IF k \in DOMAIN m /\ m[k] # None THEN m[k] ELSE metric_store[k]]

\* Mutant: the mapping replaces the stored one, keys it lacks become absent
ApplyMetricsReplace(metric_store, m) ==
    [k \in DOMAIN metric_store |-> IF k \in DOMAIN m THEN m[k] ELSE None]

\* Mutant: every key of the mapping is stored, known or not
ApplyMetricsAddsKeys(metric_store, m) ==
    [k \in DOMAIN metric_store \cup DOMAIN m |-> IF k \in DOMAIN m THEN m[k] ELSE metric_store[k]]

\* update_metrics, lines 81-83: known keys present in the mapping are overwritten
ApplyMetrics(metric_store, m) ==
    [k \in DOMAIN metric_store |-> IF k \in DOMAIN m THEN m[k] ELSE metric_store[k]]

\* The poller calls set_connected / update_metrics and continues at r afterwards
StartStoreCall(kind, connected, last_error, m, r) ==
    /\ sop' = [kind |-> kind, connected |-> connected, last_error |-> last_error, metrics |-> m]
    /\ ret' = r
    /\ pc' = "st_acquire"

\* async with self._lock (lines 67, 78)
StoreAcquire ==
    /\ pc = "st_acquire"
    /\ cancel # "pending"
    /\ LockFree
    /\ lock' = HeldByPoller
    /\ pc' = IF sop.kind = "update_metrics" THEN "st_metrics" ELSE "st_connected"
    /\ UNCHANGED <<simulate, wire, result, held, pin, pout, client, nclients, sock, writer, attempts, retired, idx, metrics,
                   tickResp, tickLog, inFlight, exc, sop, ret, store, committed, now>>
    /\ UNCHANGED readerVars /\ UNCHANGED shutdownVars

\* lines 79-83
StoreWriteMetrics ==
    /\ pc = "st_metrics"
    /\ store' = [store EXCEPT !.metrics = ApplyMetrics(store.metrics, sop.metrics)]
    /\ pc' = "st_connected"
    /\ UNCHANGED <<simulate, wire, result, held, pin, pout, client, nclients, sock, writer, attempts, retired, idx, metrics,
                   tickResp, tickLog, inFlight, exc, sop, ret, committed, lock, now>>
    /\ UNCHANGED readerVars /\ UNCHANGED shutdownVars

\* Mutant: marking the store disconnected also forgets the metric values
WriteConnectedClears(snapshot, call) ==
    [snapshot EXCEPT !.connected = call.connected,
                     !.metrics = IF call.connected THEN @ ELSE [k \in DOMAIN @ |-> None]]

\* self._snapshot["connected"] = connected (lines 68, 84)
WriteConnected(snapshot, call) == [snapshot EXCEPT !.connected = call.connected]

\* lines 68, 84
StoreWriteConnected ==
    /\ pc = "st_connected"
    /\ store' = WriteConnected(store, sop)
    /\ pc' = "st_error"
    /\ UNCHANGED <<simulate, wire, result, held, pin, pout, client, nclients, sock, writer, attempts, retired, idx, metrics,
                   tickResp, tickLog, inFlight, exc, sop, ret, committed, lock, now>>
    /\ UNCHANGED readerVars /\ UNCHANGED shutdownVars

\* Mutant: an absent error leaves the stored error text in place
WriteLastErrorKeep(snapshot, call) ==
    [snapshot EXCEPT !.last_error = IF call.last_error = None THEN @ ELSE call.last_error]

\* self._snapshot["last_error"] = last_error (lines 69, 85)
WriteLastError(snapshot, call) == [snapshot EXCEPT !.last_error = call.last_error]

\* lines 69, 85
StoreWriteError ==
    /\ pc = "st_error"
    /\ store' = WriteLastError(store, sop)
    /\ pc' = "st_stamp"
    /\ UNCHANGED <<simulate, wire, result, held, pin, pout, client, nclients, sock, writer, attempts, retired, idx, metrics,
                   tickResp, tickLog, inFlight, exc, sop, ret, committed, lock, now>>
    /\ UNCHANGED readerVars /\ UNCHANGED shutdownVars

\* Mutant: the time is recorded only when the call changed a value
StampIfChanged(snapshot, t) ==
    IF [snapshot EXCEPT !.updated_at = committed.updated_at] = committed
    THEN snapshot
    ELSE [snapshot EXCEPT !.updated_at = Some(t)]

\* self._snapshot["updated_at"] = utc_now_iso() (lines 70, 86)
Stamp(snapshot, t) == [snapshot EXCEPT !.updated_at = Some(t)]

\* utc_now_iso(): the clock has advanced, or not, since it was last read
ClockReadings == {now, IF now < MaxTime THEN now + 1 ELSE now}

\* lines 70, 86, and leaving the async with block
StoreStampRelease ==
    /\ pc = "st_stamp"
    /\ \E t \in ClockReadings :
         /\ now' = t
         /\ store' = Stamp(store, t)
    /\ committed' = store'
    /\ lock' = Unlocked
    /\ pc' = ret
    /\ sop' = NoOp
    /\ ret' = "none"
    /\ UNCHANGED <<simulate, wire, result, held, pin, pout, client, nclients, sock, writer, attempts, retired, idx, metrics,
                   tickResp, tickLog, inFlight, exc>>
    /\ UNCHANGED readerVars /\ UNCHANGED shutdownVars

\* ------------------------------------------------------------ readers
\* api_state / api_health call store.snapshot(): async with self._lock
SnapshotAcquire(r) ==
    /\ rpc[r] = "idle"
    /\ LockFree
    /\ lock' = HeldByReader(r)
    /\ rpc' = [rpc EXCEPT ![r] = "locked"]
    /\ UNCHANGED <<simulate, wire, result, held, pin, pout, store, committed, now, rsnap>>
    /\ UNCHANGED pollerVars /\ UNCHANGED shutdownVars

\* copy.deepcopy(self._snapshot)
SnapshotCopy(r) ==
    /\ rpc[r] = "locked"
    /\ rsnap' = [rsnap EXCEPT ![r] = Some(store)]
    /\ rpc' = [rpc EXCEPT ![r] = "copied"]
    /\ UNCHANGED <<simulate, wire, result, held, pin, pout, store, committed, lock, now>>
    /\ UNCHANGED pollerVars /\ UNCHANGED shutdownVars

\* return: the lock is released and the caller consumes the copy
SnapshotReturn(r) ==
    /\ rpc[r] = "copied"
    /\ lock' = IF lock = HeldByReader(r) THEN Unlocked ELSE lock
    /\ rpc' = [rpc EXCEPT ![r] = "idle"]
    /\ rsnap' = [rsnap EXCEPT ![r] = None]
    /\ UNCHANGED <<simulate, wire, result, held, pin, pout, store, committed, now>>
    /\ UNCHANGED pollerVars /\ UNCHANGED shutdownVars


\* ------------------------------------------------------------ poller, live mode
\* Mutant: the tick ends after the PID requests, without the voltage query
TickKeysNoVoltage == PidKeys

\* The commands of one tick, in the order of lines 237-247
TickKeys == PidKeys \o <<"battery_v">>

TickCommand(i) == IF i <= Len(PidKeys) THEN PID_TABLE[PidKeys[i]].command ELSE ATRV

\* Mutant: the reset is not the first setup command
SetupCommandsReordered == <<"ATE0", "ATZ", "ATL0", "ATS0", "ATH0", "ATSP0">>

\* setup_commands (line 127)
SetupCommands == <<"ATZ", "ATE0", "ATL0", "ATS0", "ATH0", "ATSP0">>

\* Positions of the poller at which the task is done
Terminal == {"stopped", "failed", "cancelled"}

\* Mutant: one client object is created once and used by every iteration
ReusedClient == IF client = 0 THEN 1 ELSE client

\* client = ELM327Client(...) (line 225): a new object every iteration
FreshClient == nclients + 1

\* The conditions of the two while loops (lines 224, 235)
OuterLoopCond == ~stop_event

\* Mutant: the inner loop does not look at the stop signal
InnerLoopForever == TRUE

InnerLoopCond == ~stop_event

\* Mutant: close() does not close the transport
CloseTransportSkipped(c) == sock

\* writer.close() (line 112): the transport releases the socket
CloseTransport(c) == [sock EXCEPT ![c] = IF @ = "open" THEN "closed" ELSE @]

\* A fault of kind e on client c: a reset loses the connection
FaultOn(c, e) == [sock EXCEPT ![c] = IF e = "reset" /\ @ = "open" THEN "lost" ELSE @]

\* The locals of a tick are dead once the tick is left
ClearTick ==
    /\ idx' = 0
    /\ metrics' = EmptyDict
    /\ tickResp' = EmptyDict
    /\ tickLog' = << >>

\* Mutant: the handler does not record the failure
HandlerErrorDropped(e) == None

\* str(exc), the last_error the handler of line 255 stores
HandlerError(e) == Some(ErrText(e))

\* Where an exception raised in the try block of _run_obd lands (line 253)
Raise(e) ==
    /\ exc' = e
    /\ pc' = "except"
    /\ inFlight' = 0
    /\ retired' = retired \cup {client}
    /\ wire' = << >>
    /\ ClearTick

\* Mutant: run() does not look at settings.simulate
RunLive ==
    /\ pc = "run"
    /\ pc' = "loop"
    /\ UNCHANGED <<simulate, wire, result, held, pin, pout, client, nclients, sock, writer, attempts,
                   retired, idx, metrics, tickResp, tickLog, inFlight, exc, sop, ret, now>>
    /\ UNCHANGED storeVars /\ UNCHANGED readerVars /\ UNCHANGED shutdownVars

\* run(), lines 217-221 and 261
Run ==
    /\ pc = "run"
    /\ IF simulate
       THEN StartStoreCall("set_connected", TRUE, None, EmptyDict, "sim_loop")
       ELSE pc' = "loop" /\ UNCHANGED <<sop, ret>>
    /\ UNCHANGED <<simulate, wire, result, held, pin, pout, client, nclients, sock, writer, attempts, retired, idx, metrics,
                   tickResp, tickLog, inFlight, exc, now>>
    /\ UNCHANGED storeVars /\ UNCHANGED readerVars /\ UNCHANGED shutdownVars

\* line 224, condition false: _run_obd returns
OuterLoopExit ==
    /\ pc = "loop"
    /\ ~OuterLoopCond
    /\ pc' = "stopped"
    /\ UNCHANGED <<simulate, wire, result, held, pin, pout, client, nclients, sock, writer, attempts, retired, idx, metrics,
                   tickResp, tickLog, inFlight, exc, sop, ret, now>>
    /\ UNCHANGED storeVars /\ UNCHANGED readerVars /\ UNCHANGED shutdownVars

\* lines 224-231: a new client for the next connection attempt
NewClient ==
    /\ pc = "loop"
    /\ OuterLoopCond
    /\ nclients < MaxClients
    /\ client' = FreshClient
    /\ nclients' = nclients + 1
    /\ wire' = << >>
    /\ pc' = "open"
    /\ UNCHANGED <<simulate, result, held, pin, pout, sock, writer, attempts, retired, idx, metrics,
                   tickResp, tickLog, inFlight, exc, sop, ret, now>>
    /\ UNCHANGED storeVars /\ UNCHANGED readerVars /\ UNCHANGED shutdownVars

\* connect(), lines 102-105: open_connection succeeds
OpenOk ==
    /\ pc = "open"
    /\ cancel # "pending"
    /\ attempts' = [attempts EXCEPT ![client] = @ + 1]
    /\ sock' = [sock EXCEPT ![client] = "open"]
    /\ writer' = [writer EXCEPT ![client] = TRUE]
    /\ idx' = 0
    /\ pc' = "sync_w"
    /\ UNCHANGED <<simulate, wire, result, held, pin, pout, client, nclients, retired, metrics,
                   tickResp, tickLog, inFlight, exc, sop, ret, now>>
    /\ UNCHANGED storeVars /\ UNCHANGED readerVars /\ UNCHANGED shutdownVars

\* connect(), lines 102-105: open_connection fails or times out
OpenFail ==
    /\ pc = "open"
    /\ cancel # "pending"
    /\ attempts' = [attempts EXCEPT ![client] = @ + 1]
    /\ \E e \in OpenFaults : Raise(e)
    /\ UNCHANGED <<simulate, result, held, pin, pout, client, nclients, sock, writer, sop, ret, now>>
    /\ UNCHANGED storeVars /\ UNCHANGED readerVars /\ UNCHANGED shutdownVars

\* _synchronize_prompt, lines 138-139: the bare terminator is written and drained
SyncWrite ==
    /\ pc = "sync_w"
    /\ cancel # "pending"
    /\ \/ /\ sock[client] = "open"
          /\ wire' = Append(wire, "\r")
          /\ pc' = "sync_r"
          /\ UNCHANGED <<sock, exc, inFlight, retired, idx, metrics, tickResp, tickLog>>
       \/ \E e \in WriteFaults : Raise(e) /\ sock' = FaultOn(client, e)
    /\ UNCHANGED <<simulate, result, held, pin, pout, client, nclients, writer, attempts, sop, ret, now>>
    /\ UNCHANGED storeVars /\ UNCHANGED readerVars /\ UNCHANGED shutdownVars

\* _synchronize_prompt, lines 140-143: a prompt is read, or the failure is swallowed
SyncRead ==
    /\ pc = "sync_r"
    /\ cancel # "pending"
    /\ \/ /\ sock[client] = "open"
          /\ idx' = IF idx + 1 = 2 THEN 1 ELSE idx + 1
          /\ pc' = IF idx + 1 = 2 THEN "init_w" ELSE "sync_w"
          /\ wire' = Append(wire, ">")
          /\ UNCHANGED sock
       \/ \E e \in ReadFaults :
            /\ sock' = FaultOn(client, e)
            /\ idx' = 1
            /\ UNCHANGED wire
            /\ pc' = "init_w"
    /\ UNCHANGED <<simulate, result, held, pin, pout, client, nclients, writer, attempts, retired, metrics,
                   tickResp, tickLog, inFlight, exc, sop, ret, now>>
    /\ UNCHANGED storeVars /\ UNCHANGED readerVars /\ UNCHANGED shutdownVars

\* _initialize_adapter -> send, lines 129, 118-123: setup command idx is written
InitWrite ==
    /\ pc = "init_w"
    /\ cancel # "pending"
    /\ \/ /\ sock[client] = "open"
          /\ inFlight' = inFlight + 1
          /\ wire' = Append(wire, SetupCommands[idx])
          /\ pc' = "init_r"
          /\ UNCHANGED <<sock, exc, retired, idx, metrics, tickResp, tickLog>>
       \/ \E e \in WriteFaults : Raise(e) /\ sock' = FaultOn(client, e)
    /\ UNCHANGED <<simulate, result, held, pin, pout, client, nclients, writer, attempts, sop, ret, now>>
    /\ UNCHANGED storeVars /\ UNCHANGED readerVars /\ UNCHANGED shutdownVars

\* send -> _read_until_prompt, lines 124, 145-158, for a setup command, and the
\* settle delay of line 130; after the last setup command, line 233
InitRead ==
    /\ pc = "init_r"
    /\ cancel # "pending"
    /\ \/ /\ sock[client] = "open"
          /\ inFlight' = inFlight - 1
          /\ wire' = Append(wire, ">")
          /\ IF idx < Len(SetupCommands)
             THEN idx' = idx + 1 /\ pc' = "init_w" /\ UNCHANGED <<sop, ret>>
             ELSE idx' = 0 /\ StartStoreCall("set_connected", TRUE, None, EmptyDict, "inner")
          /\ UNCHANGED <<sock, exc, retired, metrics, tickResp, tickLog>>
       \/ /\ \E e \in ReadFaults : Raise(e) /\ sock' = FaultOn(client, e)
          /\ UNCHANGED <<sop, ret>>
    /\ UNCHANGED <<simulate, result, held, pin, pout, client, nclients, writer, attempts, now>>
    /\ UNCHANGED storeVars /\ UNCHANGED readerVars /\ UNCHANGED shutdownVars

\* line 235, condition false: leave the try block
InnerLoopExit ==
    /\ pc = "inner"
    /\ ~InnerLoopCond
    /\ pc' = "finally"
    /\ UNCHANGED <<simulate, wire, result, held, pin, pout, client, nclients, sock, writer, attempts, retired, idx, metrics,
                   tickResp, tickLog, inFlight, exc, sop, ret, now>>
    /\ UNCHANGED storeVars /\ UNCHANGED readerVars /\ UNCHANGED shutdownVars

\* lines 235-236: a new tick starts
TickStart ==
    /\ pc = "inner"
    /\ InnerLoopCond
    /\ metrics' = EmptyDict
    /\ tickResp' = EmptyDict
    /\ tickLog' = << >>
    /\ idx' = 1
    /\ pc' = "send_w"
    /\ UNCHANGED <<simulate, wire, result, held, pin, pout, client, nclients, sock, writer, attempts, retired,
                   inFlight, exc, sop, ret, now>>
    /\ UNCHANGED storeVars /\ UNCHANGED readerVars /\ UNCHANGED shutdownVars

\* send, lines 238/247 and 118-123: command idx of the tick is written
SendWrite ==
    /\ pc = "send_w"
    /\ cancel # "pending"
    /\ \/ /\ sock[client] = "open"
          /\ writer[client]
          /\ tickLog' = Append(tickLog, TickCommand(idx))
          /\ inFlight' = inFlight + 1
          /\ pc' = "send_r"
          /\ UNCHANGED wire
          /\ UNCHANGED <<sock, exc, retired, idx, metrics, tickResp>>
       \/ \E e \in WriteFaults : Raise(e) /\ sock' = FaultOn(client, e)
    /\ UNCHANGED <<simulate, result, held, pin, pout, client, nclients, writer, attempts, sop, ret, now>>
    /\ UNCHANGED storeVars /\ UNCHANGED readerVars /\ UNCHANGED shutdownVars

\* The value a response gives the metric at position i of the tick
TickValue(i, response) ==
    IF i <= Len(PidKeys) THEN MetricOf(PidKeys[i], response) ELSE VoltageOf(response)

\* lines 124 and 239-251: the response is read and recorded; after the last
\* command the tick is published
SendRead ==
    /\ pc = "send_r"
    /\ cancel # "pending"
    /\ \/ /\ sock[client] = "open"
          /\ \E response \in Responses(TickKeys[idx]) :
               /\ metrics' = (TickKeys[idx] :> TickValue(idx, response)) @@ metrics
               /\ tickResp' = (TickKeys[idx] :> response) @@ tickResp
          /\ inFlight' = inFlight - 1
          /\ UNCHANGED wire
          /\ IF idx < Len(TickKeys)
             THEN idx' = idx + 1 /\ pc' = "send_w" /\ UNCHANGED <<sop, ret>>
             ELSE idx' = 0 /\ StartStoreCall("update_metrics", TRUE, None, metrics', "pollwait")
          /\ UNCHANGED <<sock, exc, retired, tickLog>>
       \/ /\ \E e \in ReadFaults : Raise(e) /\ sock' = FaultOn(client, e)
          /\ UNCHANGED <<sop, ret>>
    /\ UNCHANGED <<simulate, result, held, pin, pout, client, nclients, writer, attempts, now>>
    /\ UNCHANGED storeVars /\ UNCHANGED readerVars /\ UNCHANGED shutdownVars

\* _wait_or_stop(stop_event, poll_interval), lines 252 and 205-209: the wait
\* ends by the timeout or by the stop signal
PollWait ==
    /\ pc = "pollwait"
    /\ cancel # "pending"
    /\ pc' = "inner"
    /\ ClearTick
    /\ UNCHANGED <<simulate, wire, result, held, pin, pout, client, nclients, sock, writer, attempts, retired,
                   inFlight, exc, sop, ret, now>>
    /\ UNCHANGED storeVars /\ UNCHANGED readerVars /\ UNCHANGED shutdownVars

\* lines 253-255: the handler marks the store disconnected
Except ==
    /\ pc = "except"
    /\ StartStoreCall("set_connected", FALSE, HandlerError(exc), EmptyDict, "reconnwait")
    /\ UNCHANGED <<simulate, wire, result, held, pin, pout, client, nclients, sock, writer, attempts, retired, idx, metrics,
                   tickResp, tickLog, inFlight, exc, now>>
    /\ UNCHANGED storeVars /\ UNCHANGED readerVars /\ UNCHANGED shutdownVars

\* _wait_or_stop(stop_event, reconnect_delay), line 256
ReconnWait ==
    /\ pc = "reconnwait"
    /\ cancel # "pending"
    /\ exc' = "none"
    /\ pc' = "finally"
    /\ UNCHANGED <<simulate, wire, result, held, pin, pout, client, nclients, sock, writer, attempts, retired, idx, metrics,
                   tickResp, tickLog, inFlight, sop, ret, now>>
    /\ UNCHANGED storeVars /\ UNCHANGED readerVars /\ UNCHANGED shutdownVars

\* Leaving the finally block: a pending CancelledError ends the task,
\* otherwise the outer loop goes on
AfterFinally == IF exc = "cancelled" THEN "cancelled" ELSE "loop"

\* finally: client.close(), lines 258 and 110-112
Finally ==
    /\ pc = "finally"
    /\ IF ~writer[client]
       THEN pc' = AfterFinally /\ UNCHANGED sock
       ELSE pc' = "wait_closed" /\ sock' = CloseTransport(client)
    /\ retired' = retired \cup {client}
    /\ UNCHANGED <<simulate, wire, result, held, pin, pout, client, nclients, writer, attempts, idx, metrics,
                   tickResp, tickLog, inFlight, exc, sop, ret, now>>
    /\ UNCHANGED storeVars /\ UNCHANGED readerVars /\ UNCHANGED shutdownVars

\* close(), lines 113-115: wait_closed() raises the error the connection was
\* lost with, and the exception leaves _run_obd through the finally block
WaitClosed ==
    /\ pc = "wait_closed"
    /\ cancel # "pending"
    /\ IF sock[client] = "lost"
       THEN pc' = "failed" /\ exc' = "reset" /\ UNCHANGED writer
       ELSE pc' = AfterFinally /\ writer' = [writer EXCEPT ![client] = FALSE] /\ UNCHANGED exc
    /\ UNCHANGED <<simulate, wire, result, held, pin, pout, client, nclients, sock, attempts, retired, idx, metrics,
                   tickResp, tickLog, inFlight, sop, ret, now>>
    /\ UNCHANGED storeVars /\ UNCHANGED readerVars /\ UNCHANGED shutdownVars

\* ------------------------------------------------------------ poller, simulation
\* Full ticks the simulation may produce (values inside the clamps of lines 266-273)
SimTick(speed, rpm) ==
    [speed_kmh |-> Some(speed), rpm |-> Some(rpm), engine_load_pct |-> Some(469),
     throttle_pct |-> Some(286), coolant_c |-> Some(880), intake_c |-> Some(250),
     fuel_level_pct |-> Some(780), battery_v |-> Some(1320)]

SimTicks == {SimTick(700, 32800), SimTick(715, 33310)}

\* line 264, condition false: _run_simulation returns
SimLoopExit ==
    /\ pc = "sim_loop"
    /\ stop_event
    /\ pc' = "stopped"
    /\ UNCHANGED <<simulate, wire, result, held, pin, pout, client, nclients, sock, writer, attempts, retired, idx, metrics,
                   tickResp, tickLog, inFlight, exc, sop, ret, now>>
    /\ UNCHANGED storeVars /\ UNCHANGED readerVars /\ UNCHANGED shutdownVars

\* lines 264-288: a synthetic tick is published
SimPublish ==
    /\ pc = "sim_loop"
    /\ ~stop_event
    /\ \E tick \in SimTicks : StartStoreCall("update_metrics", TRUE, None, tick, "sim_wait")
    /\ UNCHANGED <<simulate, wire, result, held, pin, pout, client, nclients, sock, writer, attempts, retired, idx, metrics,
                   tickResp, tickLog, inFlight, exc, now>>
    /\ UNCHANGED storeVars /\ UNCHANGED readerVars /\ UNCHANGED shutdownVars

\* line 289
SimWait ==
    /\ pc = "sim_wait"
    /\ cancel # "pending"
    /\ pc' = "sim_loop"
    /\ UNCHANGED <<simulate, wire, result, held, pin, pout, client, nclients, sock, writer, attempts, retired, idx, metrics,
                   tickResp, tickLog, inFlight, exc, sop, ret, now>>
    /\ UNCHANGED storeVars /\ UNCHANGED readerVars /\ UNCHANGED shutdownVars

\* ------------------------------------------------------------ cancellation
\* Awaits inside the try block of _run_obd (the handler's awaits included)
TryAwaits == {"open", "sync_w", "sync_r", "init_w", "init_r", "init_sleep",
              "send_w", "send_r", "pollwait", "reconnwait"}

\* CancelledError is raised at the await the task is suspended in.  It is no
\* Exception, so line 253 does not catch it; the finally block of line 257 runs.
CancelInTry ==
    /\ cancel = "pending"
    /\ ~simulate
    /\ pc \in TryAwaits \cup {"st_acquire"}
    /\ cancel' = "delivered"
    /\ exc' = "cancelled"
    /\ inFlight' = 0
    /\ sop' = NoOp
    /\ ret' = "none"
    /\ pc' = "finally"
    /\ wire' = << >>
    /\ ClearTick
    /\ UNCHANGED <<simulate, result, held, pin, pout, client, nclients, sock, writer, attempts, retired,
                   now, stop_event, sd_pc, stoppedInWait>>
    /\ UNCHANGED storeVars /\ UNCHANGED readerVars

\* CancelledError raised in wait_closed() (line 113), after writer.close()
CancelInClose ==
    /\ cancel = "pending"
    /\ pc = "wait_closed"
    /\ cancel' = "delivered"
    /\ exc' = "cancelled"
    /\ pc' = "cancelled"
    /\ UNCHANGED <<simulate, wire, result, held, pin, pout, client, nclients, sock, writer, attempts, retired, idx, metrics,
                   tickResp, tickLog, inFlight, sop, ret, now, stop_event, sd_pc, stoppedInWait>>
    /\ UNCHANGED storeVars /\ UNCHANGED readerVars

\* CancelledError raised in _run_simulation (lines 261, 275, 289): nothing to release
CancelInSim ==
    /\ cancel = "pending"
    /\ simulate
    /\ pc \in {"st_acquire", "sim_wait"}
    /\ cancel' = "delivered"
    /\ exc' = "cancelled"
    /\ sop' = NoOp
    /\ ret' = "none"
    /\ pc' = "cancelled"
    /\ UNCHANGED <<simulate, wire, result, held, pin, pout, client, nclients, sock, writer, attempts, retired, idx, metrics,
                   tickResp, tickLog, inFlight, now, stop_event, sd_pc, stoppedInWait>>
    /\ UNCHANGED storeVars /\ UNCHANGED readerVars

\* ------------------------------------------------------------ shutdown handler
\* shutdown_event, lines 52-55: the stop signal is raised
ShutdownStart ==
    /\ sd_pc = "serving"
    /\ stop_event' = TRUE
    /\ stoppedInWait' = (pc \in {"pollwait", "reconnwait", "sim_wait"})
    /\ sd_pc' = "waiting"
    /\ UNCHANGED <<simulate, wire, result, held, pin, pout, cancel, now>>
    /\ UNCHANGED pollerVars /\ UNCHANGED storeVars /\ UNCHANGED readerVars

\* lines 56-58: the task ended within the bound
ShutdownJoin ==
    /\ sd_pc = "waiting"
    /\ pc \in Terminal
    /\ sd_pc' = "done"
    /\ UNCHANGED <<simulate, wire, result, held, pin, pout, stop_event, cancel, stoppedInWait, now>>
    /\ UNCHANGED pollerVars /\ UNCHANGED storeVars /\ UNCHANGED readerVars

\* lines 56-59: the bound elapses with the task not done; the task is cancelled
ShutdownTimeout ==
    /\ sd_pc = "waiting"
    /\ pc \notin Terminal
    /\ cancel' = "pending"
    /\ sd_pc' = "cancelling"
    /\ UNCHANGED <<simulate, wire, result, held, pin, pout, stop_event, stoppedInWait, now>>
    /\ UNCHANGED pollerVars /\ UNCHANGED storeVars /\ UNCHANGED readerVars

\* lines 60-61: the cancelled task is awaited
ShutdownAwaitCancelled ==
    /\ sd_pc = "cancelling"
    /\ pc \in Terminal
    /\ sd_pc' = "done"
    /\ UNCHANGED <<simulate, wire, result, held, pin, pout, stop_event, cancel, stoppedInWait, now>>
    /\ UNCHANGED pollerVars /\ UNCHANGED storeVars /\ UNCHANGED readerVars

\* ------------------------------------------------------------ client, called directly
\* The public methods of ELM327Client as a caller other than the poller may
\* use them, in any order, each call run to its end.
Outcome(call, raised, text) == [call |-> call, raised |-> raised, text |-> text]

\* connect(), lines 101-107: the socket is opened, then synchronized and set up
ClientConnect(c) ==
    /\ pc = "caller"
    /\ attempts[c] = 0
    /\ attempts' = [attempts EXCEPT ![c] = @ + 1]
    /\ \/ \E e \in OpenFaults :
             /\ result' = [result EXCEPT ![c] = Outcome("connect", e, None)]
             /\ UNCHANGED <<sock, writer>>
       \/ /\ writer' = [writer EXCEPT ![c] = TRUE]
          /\ \/ /\ sock' = [sock EXCEPT ![c] = "open"]
                /\ result' = [result EXCEPT ![c] = Outcome("connect", "none", None)]
             \/ \E e \in WriteFaults \cup ReadFaults :
                   /\ sock' = [sock EXCEPT ![c] = IF e = "reset" THEN "lost" ELSE "open"]
                   /\ result' = [result EXCEPT ![c] = Outcome("connect", e, None)]
    /\ UNCHANGED <<simulate, wire, held, pin, pout, pc, client, nclients, retired, idx, metrics,
                   tickResp, tickLog, inFlight, exc, sop, ret, now>>
    /\ UNCHANGED storeVars /\ UNCHANGED readerVars /\ UNCHANGED shutdownVars

\* send(command), lines 117-124 and 145-158
ClientSend(c) ==
    /\ pc = "caller"
    /\ IF ~writer[c]
       THEN /\ result' = [result EXCEPT ![c] = Outcome("send", "not_connected", None)]
            /\ UNCHANGED sock
       ELSE IF sock[c] # "open"
       THEN /\ result' = [result EXCEPT ![c] = Outcome("send", "reset", None)]
            /\ UNCHANGED sock
       ELSE \/ \E e \in WriteFaults \cup ReadFaults :
                 /\ sock' = FaultOn(c, e)
                 /\ result' = [result EXCEPT ![c] = Outcome("send", e, None)]
            \/ \E key \in {"rpm", "battery_v"} : \E response \in Responses(key) :
                 /\ result' = [result EXCEPT ![c] = Outcome("send", "none", Some(response))]
                 /\ UNCHANGED sock
    /\ UNCHANGED <<simulate, wire, held, pin, pout, pc, client, nclients, writer, attempts, retired,
                   idx, metrics, tickResp, tickLog, inFlight, exc, sop, ret, now>>
    /\ UNCHANGED storeVars /\ UNCHANGED readerVars /\ UNCHANGED shutdownVars

\* close(), lines 109-115: wait_closed() raises the error the connection was
\* lost with, and then lines 114-115 are not reached
ClientClose(c) ==
    /\ pc = "caller"
    /\ IF ~writer[c]
       THEN /\ result' = [result EXCEPT ![c] = Outcome("close", "none", None)]
            /\ UNCHANGED <<sock, writer>>
       ELSE /\ sock' = CloseTransport(c)
            /\ IF sock[c] = "lost"
               THEN /\ result' = [result EXCEPT ![c] = Outcome("close", "reset", None)]
                    /\ UNCHANGED writer
               ELSE /\ result' = [result EXCEPT ![c] = Outcome("close", "none", None)]
                    /\ writer' = [writer EXCEPT ![c] = FALSE]
    /\ UNCHANGED <<simulate, wire, held, pin, pout, pc, client, nclients, attempts, retired,
                   idx, metrics, tickResp, tickLog, inFlight, exc, sop, ret, now>>
    /\ UNCHANGED storeVars /\ UNCHANGED readerVars /\ UNCHANGED shutdownVars

\* ------------------------------------------------------------ store, called directly
\* The public methods of TelemetryStore as any caller may use them: arbitrary
\* arguments, mappings with unknown keys, snapshots kept and changed.
ConnectedArgs ==
    { [connected |-> TRUE, last_error |-> None],
      [connected |-> FALSE, last_error |-> None],
      [connected |-> FALSE, last_error |-> Some("adapter offline")] }

\* Mappings passed to update_metrics: partial, empty, with an absent value,
\* with a key the store does not know
MetricInputs ==
    { EmptyDict,
      ("rpm" :> Some(8000)),
      ("battery_v" :> Some(1260)),
      ("rpm" :> None) @@ ("bogus" :> Some(10)),
      ("bogus" :> Some(10)) }

\* await store.set_connected(connected, last_error), lines 66-70
CallSetConnected ==
    /\ pc = "caller"
    /\ \E a \in ConnectedArgs :
         StartStoreCall("set_connected", a.connected, a.last_error, EmptyDict, "caller")
    /\ UNCHANGED <<simulate, wire, result, held, pin, pout, client, nclients, sock, writer, attempts,
                   retired, idx, metrics, tickResp, tickLog, inFlight, exc, now>>
    /\ UNCHANGED storeVars /\ UNCHANGED readerVars /\ UNCHANGED shutdownVars

\* await store.update_metrics(m), lines 72-86, connected and last_error at
\* their defaults (lines 75-76)
CallUpdateMetrics ==
    /\ pc = "caller"
    /\ \E m \in MetricInputs : StartStoreCall("update_metrics", TRUE, None, m, "caller")
    /\ UNCHANGED <<simulate, wire, result, held, pin, pout, client, nclients, sock, writer, attempts,
                   retired, idx, metrics, tickResp, tickLog, inFlight, exc, now>>
    /\ UNCHANGED storeVars /\ UNCHANGED readerVars /\ UNCHANGED shutdownVars

\* Mutant: a shallow copy, whose nested mappings are the store's own objects
SharedWithStoreShallow == {"adapter", "metrics"}

\* copy.deepcopy(self._snapshot) (line 90): the objects of the result that are
\* objects of the store as well: none, every mapping is copied recursively
SharedWithStore == {}

\* snapshot() returns (line 90) to a caller that keeps the structure
SnapshotRetain(r) ==
    /\ rpc[r] = "copied"
    /\ held = None
    /\ held' = Some([snap |-> rsnap[r][1], shares |-> SharedWithStore])
    /\ lock' = IF lock = HeldByReader(r) THEN Unlocked ELSE lock
    /\ rpc' = [rpc EXCEPT ![r] = "idle"]
    /\ rsnap' = [rsnap EXCEPT ![r] = None]
    /\ UNCHANGED <<simulate, wire, result, pin, pout, store, committed, now>>
    /\ UNCHANGED pollerVars /\ UNCHANGED shutdownVars

\* An assignment a caller makes in a structure: a top-level field, an entry
\* of the nested adapter mapping, entries of the nested metrics mapping
Mutated(snap, part) ==
    CASE part = "top"     -> [snap EXCEPT !.last_error = Some("edited")]
      [] part = "adapter" -> [snap EXCEPT !.adapter.port = 0]
      [] part = "metrics" ->
            [snap EXCEPT !.metrics = ("bogus" :> Some(0)) @@ [@ EXCEPT !["rpm"] = Some(99990)]]

\* The caller changes the structure it keeps; an object the structure shares
\* with the store changes for the store too
MutateHeld ==
    /\ held # None
    /\ \E part \in {"top", "adapter", "metrics"} :
         /\ Mutated(held[1].snap, part) # held[1].snap
         /\ held' = Some([held[1] EXCEPT !.snap = Mutated(@, part)])
         /\ store' = IF part \in held[1].shares THEN Mutated(store, part) ELSE store
    /\ UNCHANGED <<simulate, wire, result, pin, pout, committed, lock, now>>
    /\ UNCHANGED pollerVars /\ UNCHANGED readerVars /\ UNCHANGED shutdownVars

\* The caller lets go of the structure
DropHeld ==
    /\ held # None
    /\ held' = None
    /\ UNCHANGED <<simulate, wire, result, pin, pout, now>>
    /\ UNCHANGED pollerVars /\ UNCHANGED storeVars /\ UNCHANGED readerVars /\ UNCHANGED shutdownVars

\* ------------------------------------------------------------ parser, called directly
\* Requests parse_pid_bytes is called for: the text, and the mode and PID
\* numbers the text stands for
ParseCommands ==
    { [text |-> <<"0","1","0","C">>, mode |-> 1, pid |-> 12],
      [text |-> <<"0","1","0","D">>, mode |-> 1, pid |-> 13] }

\* A line of bytes as the adapter writes it with spaces on (ATS1)
RECURSIVE SpacedHex(_)
SpacedHex(bytes) ==
    IF bytes = << >> THEN << >>
    ELSE IF Len(bytes) = 1 THEN ToHex02(bytes[1])
    ELSE ToHex02(bytes[1]) \o <<" ">> \o SpacedHex(Tail(bytes))

\* The same line with spaces off (ATS0)
RECURSIVE CompactHex(_)
CompactHex(bytes) ==
    IF bytes = << >> THEN << >> ELSE ToHex02(bytes[1]) \o CompactHex(Tail(bytes))

\* A line the adapter sends as hex byte pairs
ByteLine(bytes, spaced) ==
    [kind |-> "bytes", bytes |-> bytes, spaced |-> spaced, text |-> << >>,
     answers |-> << >>, payload |-> << >>]

\* Any other line, with the request it is a data line for (if any) and the
\* payload it then carries
TextLine(text, answers, payload) ==
    [kind |-> "text", bytes |-> << >>, spaced |-> FALSE, text |-> text,
     answers |-> answers, payload |-> payload]

ByteLines ==
    { ByteLine(b, sp) : b \in { <<65, 12, 26, 248>>, <<65, 12, 26>>, <<65, 13, 60>>,
                                <<65, 12>>, <<65>>, <<1, 12>> },
                       sp \in BOOLEAN }

TextLines ==
    { TextLine(<<"N","O"," ","D","A","T","A">>, << >>, << >>),
      TextLine(<<"S","E","A","R","C","H","I","N","G",".",".",".">>, << >>, << >>),
      TextLine(<< >>, << >>, << >>),
      TextLine(<<"B","U","S"," ","B","U","S","Y">>, << >>, << >>),
      TextLine(<<"4","1","0","C","1","A","F">>, << >>, << >>),
      TextLine(<<"4","1"," ","0","c"," ","0","b"," ","b","8">>, <<"0","1","0","C">>, <<11, 184>>),
      TextLine(<<"4","1"," ","0","D"," ","3"," ","C","F","F">>, <<"0","1","0","D">>, <<3, 3327>>) }

\* The text of one line
LineText(l) ==
    IF l.kind = "bytes"
    THEN (IF l.spaced THEN SpacedHex(l.bytes) ELSE CompactHex(l.bytes))
    ELSE l.text

\* The response: the lines, a carriage return after each, then the prompt;
\* with cr false the prompt follows the last line directly
RECURSIVE Render(_, _)
Render(lines, cr) ==
    IF lines = << >> THEN <<">">>
    ELSE IF Len(lines) = 1 /\ ~cr THEN LineText(Head(lines)) \o <<">">>
    ELSE LineText(Head(lines)) \o <<"\r">> \o Render(Tail(lines), cr)

\* Responses of at most MaxLines lines
RECURSIVE LineSeqs(_)
LineSeqs(n) ==
    IF n = 0 THEN { << >> }
    ELSE LET shorter == LineSeqs(n - 1)
         IN shorter \cup {Append(ls, l) : ls \in {x \in shorter : Len(x) = n - 1},
                                          l \in ByteLines \cup TextLines}

\* payload = parse_pid_bytes(command, response) is called (line 239)
ParseCall ==
    /\ pc = "caller"
    /\ pin = NoParse
    /\ \E command \in ParseCommands : \E lines \in LineSeqs(MaxLines) :
         \E cr \in BOOLEAN : pin' = [command |-> command, lines |-> lines, cr |-> cr]
    /\ UNCHANGED <<simulate, wire, result, held, pout, now>>
    /\ UNCHANGED pollerVars /\ UNCHANGED storeVars /\ UNCHANGED readerVars /\ UNCHANGED shutdownVars

\* parse_pid_bytes returns (lines 168-192)
ParseReturn ==
    /\ pin # NoParse
    /\ pout = None
    /\ pout' = Some(parse_pid_bytes(pin.command.text, Render(pin.lines, pin.cr)))
    /\ UNCHANGED <<simulate, wire, result, held, pin, now>>
    /\ UNCHANGED pollerVars /\ UNCHANGED storeVars /\ UNCHANGED readerVars /\ UNCHANGED shutdownVars

\* ------------------------------------------------------------ decoding, called directly
\* The request of each PID of the registry, with the numbers its text stands for
MetricCommands ==
    { [text |-> PID_TABLE[k].command,
       mode |-> HexInt(SubSeq(PID_TABLE[k].command, 1, 2)),
       pid  |-> HexInt(SubSeq(PID_TABLE[k].command, 3, 4))] : k \in Range(PidKeys) }

\* The registry key of a request
KeyOf(command) == CHOOSE k \in Range(PidKeys) : PID_TABLE[k].command = command.text

\* Byte values the adapter may send
PayloadBytes == {0, 26, 40, 249, 255}

\* Payloads of at most n bytes
RECURSIVE Payloads(_)
Payloads(n) ==
    IF n = 0 THEN { << >> }
    ELSE LET shorter == Payloads(n - 1)
         IN shorter \cup {Append(d, b) : d \in {x \in shorter : Len(x) = n - 1}, b \in PayloadBytes}

\* response = await client.send(definition.command) (line 238): the adapter
\* answers the request with a data line carrying some payload
MetricCall ==
    /\ pc = "caller"
    /\ pin = NoParse
    /\ \E command \in MetricCommands : \E d \in Payloads(MaxPayload) : \E spaced \in BOOLEAN :
         pin' = [command |-> command,
                 lines |-> <<ByteLine(<<command.mode + 64, command.pid>> \o d, spaced)>>,
                 cr |-> TRUE]
    /\ UNCHANGED <<simulate, wire, result, held, pout, now>>
    /\ UNCHANGED pollerVars /\ UNCHANGED storeVars /\ UNCHANGED readerVars /\ UNCHANGED shutdownVars

\* lines 239-245: the value recorded for the PID
MetricReturn ==
    /\ pin # NoParse
    /\ pout = None
    /\ pout' = Some(MetricOf(KeyOf(pin.command), Render(pin.lines, pin.cr)))
    /\ UNCHANGED <<simulate, wire, result, held, pin, now>>
    /\ UNCHANGED pollerVars /\ UNCHANGED storeVars /\ UNCHANGED readerVars /\ UNCHANGED shutdownVars

\* ------------------------------------------------------------ specification
StoreNext ==
    \/ StoreAcquire
    \/ StoreWriteMetrics
    \/ StoreWriteConnected
    \/ StoreWriteError
    \/ StoreStampRelease

PollerSteps ==
    \/ Run
    \/ OuterLoopExit
    \/ NewClient
    \/ OpenOk
    \/ OpenFail
    \/ SyncWrite
    \/ SyncRead
    \/ InitWrite
    \/ InitRead
    \/ InnerLoopExit
    \/ TickStart
    \/ SendWrite
    \/ SendRead
    \/ PollWait
    \/ Except
    \/ ReconnWait
    \/ Finally
    \/ WaitClosed
    \/ SimLoopExit
    \/ SimPublish
    \/ SimWait
    \/ StoreNext

PollerNext ==
    \/ PollerSteps
    \/ CancelInTry
    \/ CancelInClose
    \/ CancelInSim

ReaderNext ==
    \E r \in Readers : SnapshotAcquire(r) \/ SnapshotCopy(r) \/ SnapshotReturn(r)

ShutdownNext ==
    \/ ShutdownStart
    \/ ShutdownJoin
    \/ ShutdownTimeout
    \/ ShutdownAwaitCancelled

Next == PollerNext \/ ReaderNext \/ ShutdownNext

Spec == Init /\ [][Next]_vars

\* The system while the bounded wait of the shutdown handler (line 57) has
\* not elapsed: the poller task is not cancelled.
NextUncancelled == PollerSteps \/ ReaderNext \/ ShutdownStart \/ ShutdownJoin

\* A snapshot() call that holds the lock runs to its return
ReaderRelease == \E r \in Readers : SnapshotCopy(r) \/ SnapshotReturn(r)

\* The event loop runs every task that can run; asyncio.Lock wakes its
\* waiters in FIFO order, so a waiting acquire() is served; every socket
\* operation completes, fails or times out.
LiveSpec ==
    /\ Init
    /\ [][NextUncancelled]_vars
    /\ WF_vars(PollerSteps)
    /\ SF_vars(StoreAcquire)
    /\ WF_vars(ReaderRelease)

\* Client objects used directly, without the poller
ClientInit ==
    /\ simulate = FALSE
    /\ Constructed("caller")

ClientNext == \E c \in Clients : ClientConnect(c) \/ ClientSend(c) \/ ClientClose(c)

ClientSpec == ClientInit /\ [][ClientNext]_vars

\* A store used directly by callers, without the poller
StoreInit ==
    /\ simulate = FALSE
    /\ Constructed("caller")

StoreCallerNext ==
    \/ CallSetConnected
    \/ CallUpdateMetrics
    \/ StoreNext
    \/ ReaderNext
    \/ \E r \in Readers : SnapshotRetain(r)
    \/ MutateHeld
    \/ DropHeld

StoreSpec == StoreInit /\ [][StoreCallerNext]_vars

\* The parser used directly
ParserInit ==
    /\ simulate = FALSE
    /\ Constructed("caller")

ParserNext == ParseCall \/ ParseReturn

ParserSpec == ParserInit /\ [][ParserNext]_vars

\* The per-PID step of a tick used directly
DecoderInit ==
    /\ simulate = FALSE
    /\ Constructed("caller")

DecoderNext == MetricCall \/ MetricReturn

DecoderSpec == DecoderInit /\ [][DecoderNext]_vars


\* ------------------------------------------------------------ properties
\* Whether the response to the request of PID key fails to parse or carries
\* fewer bytes than the PID needs
ParseFails(key, response) ==
    LET payload == parse_pid_bytes(PID_TABLE[key].command, response)
    IN payload = None \/ Len(payload[1]) < PID_TABLE[key].bytes_needed

\* C1: the copy snapshot() returns is the store exactly as the last completed
\* set_connected/update_metrics call left it, never a state in which only
\* some fields of a mutation have been written.
C1_NoTornSnapshot ==
    \A r \in Readers : rpc[r] = "copied" => rsnap[r] = Some(committed)

\* C1 witness: a reader holds a copy showing connected=true while the poller
\* is waiting for the lock to mark the store disconnected.
C1_Witness ==
    \E r \in Readers :
        /\ rpc[r] = "copied"
        /\ rsnap[r][1].connected
        /\ pc = "st_acquire"
        /\ sop.kind = "set_connected"
        /\ ~sop.connected

\* C2 (as claimed): no fault ends the worker; run() ends only by returning,
\* and returns only after the stop signal has been raised.
C2_FaultsContained ==
    /\ pc # "failed"
    /\ pc = "stopped" => stop_event

\* C3: after the handler of a connection failure has run, the store shows
\* connected=false with the failure's description; from a successful connect
\* until the next fault it shows connected=true with no error.
C3_FailureSurfaced ==
    /\ pc = "reconnwait" =>
          /\ ~store.connected
          /\ store.last_error # None
          /\ store.last_error = Some(ErrText(exc))
    /\ (~simulate /\ pc \in {"inner", "send_w", "send_r", "pollwait"}) =>
          /\ store.connected
          /\ store.last_error = None

\* C3 witness: the second client is connected and the store is clean again,
\* which only happens after the first client failed.
C3_Witness ==
    /\ pc = "inner"
    /\ client = 2
    /\ store.connected
    /\ store.last_error = None
    /\ sock[1] \in {"closed", "lost"}

\* C4: a tick in which some PID did not parse is still completed on the same
\* open client and published with connected=true and no error; in the
\* published tick exactly the PIDs that did not parse are absent.
C4_ParseFailureScoped ==
    /\ (pc \in {"send_w", "send_r"} /\ \E k \in DOMAIN metrics : metrics[k] = None) =>
          /\ sock[client] = "open"
          /\ client \notin retired
          /\ store.connected
    /\ pc = "pollwait" =>
          /\ DOMAIN tickResp = MetricKeys
          /\ tickLog = [i \in 1..Len(TickKeys) |-> TickCommand(i)]
          /\ store.connected
          /\ store.last_error = None
          /\ \A i \in 1..Len(PidKeys) :
                (store.metrics[PidKeys[i]] = None) <=> ParseFails(PidKeys[i], tickResp[PidKeys[i]])
          /\ sock[client] = "open"
          /\ attempts[client] = 1
          /\ client \notin retired

\* C4 witness: a tick was published in which the rpm response did not parse
\* and the speed response did.
C4_Witness ==
    /\ pc = "pollwait"
    /\ ParseFails("rpm", tickResp["rpm"])
    /\ store.metrics["rpm"] = None
    /\ store.metrics["speed_kmh"] # None

WindDown == {"pollwait", "reconnwait", "inner", "finally", "wait_closed", "loop",
             "sim_wait", "sim_loop", "stopped", "failed", "cancelled"}

\* C6: once the stop signal was raised during a poll-interval or
\* reconnect-delay wait, the poller writes no command and attempts no
\* connection any more.
C6_NoCycleAfterStop ==
    stoppedInWait => (pc \in WindDown /\ inFlight = 0)

\* C6 witness: run() has returned in live mode after a stop raised in a wait.
C6_Witness ==
    /\ stoppedInWait
    /\ ~simulate
    /\ pc = "stopped"
    /\ sock[client] = "closed"

\* C7 (as claimed): once the stop signal has been raised, run() eventually
\* returns.
C7_StopTerminates == stop_event ~> (pc = "stopped")

\* C8: once the worker is done no socket is open; the task is cancelled only
\* after the stop signal was raised and only when it was not done.
C8_NoSocketLeak ==
    /\ [](pc \in Terminal => \A c \in Clients : sock[c] # "open")
    /\ [](cancel # "none" => (stop_event /\ sd_pc \in {"cancelling", "done"}))
    /\ [][cancel' # cancel /\ cancel' = "pending" => (stop_event /\ pc \notin Terminal)]_vars

\* C8 witness: the task was cancelled while its client was connected and the
\* client's socket has been closed.
C8_Witness ==
    /\ pc = "cancelled"
    /\ cancel = "delivered"
    /\ client \in Clients
    /\ writer[client]
    /\ sock[client] = "closed"

\* C9: a connection attempt is made on a client never used before, at most
\* one socket is open, and no command is written on a client after an
\* exception left its connect() or send() or after it was closed.
C9_FreshClientPerAttempt ==
    /\ \A c \in Clients : attempts[c] <= 1
    /\ Cardinality({c \in Clients : sock[c] = "open"}) <= 1
    /\ pc = "open" => (attempts[client] = 0 /\ sock[client] = "none" /\ ~writer[client])
    /\ pc \in {"open", "sync_w", "sync_r", "init_w", "init_r", "send_w", "send_r"} =>
          client \notin retired

\* C9 witness: a second client is connected after the first was closed.
C9_Witness ==
    /\ client = 2
    /\ pc = "send_r"
    /\ 1 \in retired
    /\ sock[1] = "closed"
    /\ sock[2] = "open"

\* The order of the commands of a tick
TickOrder ==
    << <<"0","1","0","C">>, <<"0","1","0","D">>, <<"0","1","0","5">>, <<"0","1","1","1">>,
       <<"0","1","0","4">>, <<"0","1","2","F">>, <<"0","1","0","F">>, <<"A","T","R","V">> >>

\* C10: the commands written in a tick are a prefix of 010C, 010D, 0105,
\* 0111, 0104, 012F, 010F, ATRV; a command is written only when no send is
\* in progress, and at most one send is in progress.
C10_TickOrder ==
    /\ Len(tickLog) <= Len(TickOrder)
    /\ tickLog = SubSeq(TickOrder, 1, Len(tickLog))
    /\ inFlight <= 1
    /\ pc \in {"send_w", "init_w"} => inFlight = 0
    /\ pc = "send_r" => (inFlight = 1 /\ Len(tickLog) = idx)

\* C10 witness: all eight commands of a tick have been written and answered.
C10_Witness ==
    /\ pc = "pollwait"
    /\ Len(tickLog) = 8
    /\ inFlight = 0

\* The six setup exchanges: each command is followed by the read of its prompt
SetupExchange ==
    <<"ATZ", ">", "ATE0", ">", "ATL0", ">", "ATS0", ">", "ATH0", ">", "ATSP0", ">">>

\* The prompt synchronization: one or two bare terminators, a prompt read after
\* each except possibly the last one
SyncExchanges == { <<"\r">>, <<"\r", ">", "\r">>, <<"\r", ">", "\r", ">">> }

\* The complete exchanges of connect()
Handshakes == {sx \o SetupExchange : sx \in SyncExchanges}

IsPrefix(a, b) == Len(a) <= Len(b) /\ a = SubSeq(b, 1, Len(a))

\* C11: on every client the socket is opened first, then at most two bare
\* terminators are written, then ATZ, ATE0, ATL0, ATS0, ATH0, ATSP0 in that
\* order, each after the prompt of the previous one was read; a PID request
\* or ATRV is written, and the store is marked connected, only after all six
\* setup exchanges.
C11_SessionOrder ==
    /\ [](\E h \in Handshakes : IsPrefix(wire, h))
    /\ [](Cardinality({i \in DOMAIN wire : wire[i] = "\r"}) <= 2)
    /\ [](wire # << >> => (client \in Clients /\ attempts[client] = 1 /\ sock[client] # "none"))
    /\ []((pc \in {"send_w", "send_r"} \/ tickLog # << >>) => wire \in Handshakes)
    /\ []((~simulate /\ sop.kind # "none" /\ sop.connected) => wire \in Handshakes)
    /\ [][(~simulate /\ ~store.connected /\ store'.connected) => wire \in Handshakes]_vars

\* C11 witness: a tick is under way on a client whose first synchronization
\* read failed and which then completed the six setup exchanges.
C11_Witness ==
    /\ pc = "send_r"
    /\ wire = <<"\r">> \o SetupExchange
    /\ store.connected

\* C12 (as claimed): send() called on a client that is not connected, or
\* meeting the end of the stream or the read timeout before a prompt, fails
\* with a connection error and returns no text.
C12_SendConnectionError ==
    \A c \in Clients :
        (result[c].call = "send" /\ result[c].raised \in {"not_connected", "eof", "timeout"}) =>
            /\ IsConnectionError(ExcClass(result[c].raised))
            /\ result[c].text = None

\* C17 (as claimed): close() raises nothing in any client state and leaves
\* the client disconnected with its socket released.
C17_CloseSafe ==
    \A c \in Clients :
        result[c].call = "close" =>
            /\ result[c].raised = "none"
            /\ ~writer[c]
            /\ sock[c] # "open"

\* The metric keys of the store
EightKeys == {"rpm", "speed_kmh", "coolant_c", "throttle_pct", "engine_load_pct",
              "fuel_level_pct", "intake_c", "battery_v"}

\* A step in which a set_connected or update_metrics call completes
CallCompletes == pc = "st_stamp" /\ pc' # "st_stamp"

\* C13: when update_metrics(m) completes, every known key present in m
\* holds m's value, every known key absent from m holds what it held before,
\* and no key has been added.
C13_UpdateFrame ==
    [][(CallCompletes /\ sop.kind = "update_metrics") =>
          /\ DOMAIN committed'.metrics = DOMAIN committed.metrics
          /\ \A k \in EightKeys :
                committed'.metrics[k] =
                    IF k \in DOMAIN sop.metrics THEN sop.metrics[k] ELSE committed.metrics[k]]_vars

\* C13 witness: a call with an absent rpm and an unknown key is completing on
\* a store that holds an rpm and a battery voltage.
C13_Witness ==
    /\ pc = "st_stamp"
    /\ sop.kind = "update_metrics"
    /\ DOMAIN sop.metrics = {"rpm", "bogus"}
    /\ committed.metrics["rpm"] # None
    /\ committed.metrics["battery_v"] # None
    /\ store.metrics["rpm"] = None
    /\ store.metrics["battery_v"] # None

\* A step in which a caller changes the structure snapshot() returned to it
CallerMutates == held # None /\ held' # None /\ held'[1].snap # held[1].snap

\* C14: changing a structure returned by snapshot() changes nothing in the
\* store, and every snapshot() copy taken afterwards is the store as its last
\* mutation left it.
C14_SnapshotIndependent ==
    /\ [][CallerMutates => (store' = store /\ committed' = committed)]_vars
    /\ [](\A r \in Readers :
            (held # None /\ rpc[r] = "copied") =>
                (rsnap[r] = Some(committed) /\ rsnap[r][1].adapter = InitSnapshot.adapter))

\* C14 witness: a caller changed all three parts of the structure it keeps
\* and a later snapshot() has copied the store.
C14_Witness ==
    /\ held # None
    /\ held[1].snap.last_error = Some("edited")
    /\ held[1].snap.adapter.port = 0
    /\ "bogus" \in DOMAIN held[1].snap.metrics
    /\ \E r \in Readers : rpc[r] = "copied" /\ rsnap[r][1].metrics["rpm"] = Some(8000)

\* C15: the key set of metrics is the eight fixed keys, in the store and in
\* every copy snapshot() makes, whatever the keys of the mappings passed in.
C15_KeySetFixed ==
    /\ DOMAIN store.metrics = EightKeys
    /\ DOMAIN committed.metrics = EightKeys
    /\ \A r \in Readers : rsnap[r] # None => DOMAIN rsnap[r][1].metrics = EightKeys

\* C15 witness: the metrics of a mapping with an unknown key have been
\* applied to a store that was mutated before.
C15_Witness ==
    /\ pc = "st_connected"
    /\ sop.kind = "update_metrics"
    /\ "bogus" \in DOMAIN sop.metrics
    /\ committed.updated_at # None

\* C16: every completing set_connected or update_metrics call sets
\* updated_at to the time it reads, no other step changes updated_at, and
\* updated_at is absent only in the store as constructed.
C16_Stamping ==
    /\ [][CallCompletes => (store'.updated_at = Some(now') /\ committed'.updated_at = Some(now'))]_vars
    /\ [][~CallCompletes => (store'.updated_at = store.updated_at
                             /\ committed'.updated_at = committed.updated_at)]_vars
    /\ [](committed.updated_at = None => committed = InitSnapshot)
    /\ [](\A r \in Readers : rpc[r] = "copied" =>
              (rsnap[r][1].updated_at = None <=> rsnap[r][1] = InitSnapshot))

\* C16 witness: calls that changed no value have completed and the store
\* carries the later time; a snapshot() has copied it.
C16_Witness ==
    /\ pc = "caller"
    /\ committed.updated_at = Some(1)
    /\ [committed EXCEPT !.updated_at = None] = InitSnapshot
    /\ \E r \in Readers : rpc[r] = "copied"

\* C18: in simulation mode no client exists, no socket is opened and nothing
\* is written; every store call of the poller carries connected=true and no
\* error, and once the store was mutated it, and every copy of it, shows
\* connected=true and no error.
C18_SimulationClean ==
    simulate =>
        /\ nclients = 0
        /\ client = 0
        /\ \A c \in Clients : sock[c] = "none" /\ attempts[c] = 0 /\ ~writer[c]
        /\ wire = << >>
        /\ tickLog = << >>
        /\ sop.kind # "none" => (sop.connected /\ sop.last_error = None)
        /\ committed.updated_at # None => (committed.connected /\ committed.last_error = None)
        /\ \A r \in Readers :
              (rpc[r] = "copied" /\ rsnap[r][1].updated_at # None) =>
                  (rsnap[r][1].connected /\ rsnap[r][1].last_error = None)

\* C18 witness: run() has returned in simulation mode after publishing a tick.
C18_Witness ==
    /\ simulate
    /\ pc = "stopped"
    /\ committed.connected
    /\ committed.metrics["rpm"] # None

\* Whether a line is a data line for a request: its first two bytes are the
\* request mode + 0x40 and the PID
Answers(command, l) ==
    IF l.kind = "bytes"
    THEN Len(l.bytes) >= 2 /\ l.bytes[1] = command.mode + 64 /\ l.bytes[2] = command.pid
    ELSE l.answers = command.text

\* The payload of the first data line for the request, if there is one
ExpectedPayload(command, lines) ==
    LET hits == {i \in DOMAIN lines : Answers(command, lines[i])}
    IN IF hits = {} THEN None
       ELSE LET first == lines[CHOOSE i \in hits : \A j \in hits : i <= j]
            IN Some(IF first.kind = "bytes"
                    THEN SubSeq(first.bytes, 3, Len(first.bytes))
                    ELSE first.payload)

\* C19: parse_pid_bytes returns the payload of the first line of the
\* response that is a data line for the request (mode + 0x40, then the PID),
\* and no result when there is no such line: only control strings, echoes,
\* SEARCHING lines, other text, or data lines of another PID.
C19_ParseResult ==
    pout # None => pout[1] = ExpectedPayload(pin.command, pin.lines)

\* C19 witness: the response holds a data line of another PID, then the
\* unspaced data line of the request, and its payload was returned.
C19_Witness ==
    /\ pout = Some(Some(<<26, 248>>))
    /\ Len(pin.lines) = 2
    /\ pin.lines[1] = ByteLine(<<65, 13, 60>>, TRUE)
    /\ pin.lines[2] = ByteLine(<<65, 12, 26, 248>>, FALSE)

\* The response with line i written the other way: spaced for unspaced
Respaced(lines, i) == [lines EXCEPT ![i].spaced = ~@]

\* C20: the result is the same when any one line of byte pairs of the
\* response is written unspaced instead of spaced, or spaced instead of
\* unspaced.
C20_SpacingIrrelevant ==
    pout # None =>
        \A i \in DOMAIN pin.lines :
            pin.lines[i].kind = "bytes" =>
                parse_pid_bytes(pin.command.text, Render(Respaced(pin.lines, i), pin.cr)) = pout[1]

\* C20 witness: the payload of a spaced data line was returned.
C20_Witness ==
    /\ pout = Some(Some(<<60>>))
    /\ Len(pin.lines) = 1
    /\ ~pin.cr
    /\ pin.lines[1] = ByteLine(<<65, 13, 60>>, TRUE)

\* The payload bytes of the data line a decoding call was made with
SentPayload == SubSeq(pin.lines[1].bytes, 3, Len(pin.lines[1].bytes))

\* The decode rule of each metric as a fraction num / den of the payload bytes
RuleNum(key, d) ==
    CASE key = "rpm" -> d[1] * 256 + d[2]
      [] key \in {"throttle_pct", "engine_load_pct", "fuel_level_pct"} -> d[1] * 100
      [] key \in {"coolant_c", "intake_c"} -> d[1] - 40
      [] key = "speed_kmh" -> d[1]

RuleDen(key) ==
    CASE key = "rpm" -> 4
      [] key \in {"throttle_pct", "engine_load_pct", "fuel_level_pct"} -> 255
      [] key \in {"coolant_c", "intake_c", "speed_kmh"} -> 1

BytesNeeded(key) == IF key = "rpm" THEN 2 ELSE 1

Abs(x) == IF x < 0 THEN -x ELSE x

\* C21 (as claimed): the value recorded for a PID is exactly its decode rule
\* applied to the first bytes of the payload, and absent when the payload is
\* too short.
C21_DecodeExact ==
    pout # None =>
        LET key == KeyOf(pin.command)
        IN IF Len(SentPayload) < BytesNeeded(key)
           THEN pout[1] = None
           ELSE /\ pout[1] # None
                /\ pout[1][1] * RuleDen(key) = 10 * RuleNum(key, SentPayload)

\* C21 (amended): the value recorded for a PID is its decode rule applied to
\* the first bytes of the payload, rounded to one decimal place (it is a whole
\* number of tenths within half a tenth of the rule's value), and absent when
\* the payload is too short; further payload bytes do not matter.
C21_DecodeRounded ==
    pout # None =>
        LET key == KeyOf(pin.command)
        IN IF Len(SentPayload) < BytesNeeded(key)
           THEN pout[1] = None
           ELSE /\ pout[1] # None
                /\ 2 * Abs(pout[1][1] * RuleDen(key) - 10 * RuleNum(key, SentPayload)) <= RuleDen(key)

\* C21 witness: an engine speed of 63.75 rpm sent with a further byte was
\* recorded as 63.8.
C21_Witness ==
    /\ pout = Some(Some(638))
    /\ pin.command.text = <<"0","1","0","C">>
    /\ SentPayload = <<0, 255, 26>>

\* C22 (as claimed): when the poller waits the reconnect delay after a
\* fault, the store has been marked disconnected and the faulted client has
\* been closed: its socket is not open during the wait.
C22_ClosedBeforeWait ==
    pc = "reconnwait" =>
        /\ ~store.connected
        /\ store.last_error # None
        /\ sock[client] # "open"

\* C23: in live mode the metric values of the store change only in the
\* update of a completed tick: all eight commands were written and answered,
\* the update carries the eight keys and the store then holds exactly the
\* values of that tick; no other step, a fault or a cancellation included,
\* changes a metric value.
C23_OneUpdatePerTick ==
    /\ [][(~simulate /\ store'.metrics # store.metrics) =>
             /\ pc = "st_metrics"
             /\ sop.kind = "update_metrics"
             /\ ret = "pollwait"
             /\ DOMAIN sop.metrics = EightKeys
             /\ DOMAIN tickResp = EightKeys
             /\ tickLog = TickOrder
             /\ inFlight = 0
             /\ store'.metrics = sop.metrics]_vars
    /\ [][(~simulate /\ committed'.metrics # committed.metrics) =>
             (pc = "st_stamp" /\ pc' = "pollwait" /\ committed'.metrics = sop.metrics)]_vars
    /\ []((~simulate /\ pc \in {"send_w", "send_r", "except", "finally"}) =>
             store.metrics = committed.metrics)

\* C23 witness: a fault has ended the session and the store still holds the
\* rpm and the voltage of the last completed tick.
C23_Witness ==
    /\ ~simulate
    /\ pc = "except"
    /\ store.metrics["rpm"] # None
    /\ store.metrics["battery_v"] # None
    /\ client \in retired

\* C24 (as claimed): after a connection failure in live mode, while another
\* client can be created, either the stop signal is raised or the poller
\* makes a connection attempt on a fresh client.
C24_Recovers ==
    (pc = "except" /\ ~stop_event /\ nclients < MaxClients)
        ~> (stop_event \/ (pc = "open" /\ client = nclients /\ attempts[client] = 0))

\* C25 (as claimed): a failure during prompt synchronization, the write of the
\* bare terminator included, never makes connect() fail: no step taken inside
\* _synchronize_prompt lands in the handler of _run_obd.
C25_SyncFailureSwallowed ==
    [][~(pc \in {"sync_w", "sync_r"} /\ pc' = "except")]_vars

\* C26: set_connected(connected, error) leaves every metric value and the
\* adapter address as they were, during the call and when it completes, and
\* sets the connectivity and error fields to its arguments; after a fault the
\* store still holds the metric values published last.
C26_MetricsKept ==
    /\ [](sop.kind = "set_connected" =>
              (store.metrics = committed.metrics /\ store.adapter = committed.adapter))
    /\ [][(CallCompletes /\ sop.kind = "set_connected") =>
              /\ committed'.metrics = committed.metrics
              /\ committed'.adapter = committed.adapter
              /\ committed'.connected = sop.connected
              /\ committed'.last_error = sop.last_error]_vars
    /\ [][pc' = "reconnwait" => store'.metrics = store.metrics]_vars

\* C26 witness: the poller waits to reconnect after a fault, the store is
\* marked disconnected and still holds a decoded rpm and a battery voltage.
C26_Witness ==
    /\ pc = "reconnwait"
    /\ ~store.connected
    /\ store.last_error # None
    /\ store.metrics["rpm"] # None
    /\ store.metrics["battery_v"] # None

\* C27 (as claimed): the client never writes a command while a terminator or
\* command written before it on the same session is still unanswered: in what
\* a session wrote and read, every write but the first follows the read of a
\* prompt.
C27_Aligned ==
    \A i \in DOMAIN wire : (i > 1 /\ wire[i] # ">") => wire[i - 1] = ">"

\* C28: in live and in simulated mode, the store as every completed call left
\* it, the store whenever no call is writing it, and every copy handed out by
\* snapshot() have last_error absent whenever connected is true.
C28_ErrorOnlyDisconnected ==
    /\ committed.connected => committed.last_error = None
    /\ lock # HeldByPoller => (store.connected => store.last_error = None)
    /\ \A r \in Readers :
          (rpc[r] = "copied" /\ rsnap[r][1].connected) => rsnap[r][1].last_error = None

\* C28 witness: in live mode the second client is connected after the first
\* one failed with an error text, and a snapshot() has copied the connected
\* store.
C28_Witness ==
    /\ ~simulate
    /\ client = 2
    /\ 1 \in retired
    /\ lock # HeldByPoller
    /\ store.connected
    /\ store.last_error = None
    /\ \E r \in Readers : rpc[r] = "copied" /\ rsnap[r][1].connected

\* C29 (as claimed): every element of a payload returned by parse_pid_bytes
\* is a byte value, 0 to 255.
C29_PayloadBytes ==
    (pout # None /\ pout[1] # None) =>
        \A i \in DOMAIN pout[1][1] : pout[1][1][i] \in 0..255

=============================================================================
